---------------------------- MODULE Spec2Model ----------------------------
(***************************************************************************)
(* Job application pipeline: the jobs and applications tables of           *)
(* utils/database.py and the runs of ScrapingAgent, AnalysisAgent and      *)
(* ApplicationAgent that read and write them.                              *)
(*                                                                         *)
(* Every "with self.db._get_connection()" block is one SQLite transaction  *)
(* and is modelled as one atomic step; a run is a sequence of such steps,  *)
(* and the steps of different runs interleave (Spec).  SpecSeq is the same *)
(* system with runs executed one at a time.                                *)
(*                                                                         *)
(* Scores are in hundredths of a point (6.0 is 600); time is in whole      *)
(* days.                                                                   *)
(***************************************************************************)
EXTENDS Integers, Sequences, FiniteSets, TLC

(* ------------------------------ bounds -------------------------------- *)

NumPostings == 2

NumRuns == 2

MaxDay == 1

(* application.daily_limit of the configuration (30 when not set). *)
daily_limit == 1

(* RateLimiter: the clock runs to MaxClock seconds, at most MaxRecorded     *)
(* requests are recorded, and max_requests and time_window are configured *)
(* up to MaxRequestsBound and MaxTimeWindow.                              *)
MaxClock == 5

MaxRecorded == 3

MaxRequestsBound == 2

MaxTimeWindow == 2

(* analyze_job: a posting's text holds up to MaxExcludeMatches of the     *)
(* configured exclusion keywords.                                         *)
MaxExcludeMatches == 3

(* AntiDetectionManager: SessionConfig.max_requests is configured up to   *)
(* MaxSessionRequests, and check_session_limit is called MaxCalls times.  *)
MaxSessionRequests == 4

MaxCalls == 24

(* A run of AnalysisAgent or ApplicationAgent selects up to MaxBatch jobs. *)
MaxBatch == 3

Postings == 1..NumPostings

Runs == 1..NumRuns

(* --------------------- configuration (utils/config.py) ---------------- *)

NULL == 0 - 1000

get_min_relevance_score == 600

DefaultAutoApplyThreshold == 800

(* application.auto_apply_threshold is free configuration: the default,   *)
(* or "apply to everything that was shortlisted".                         *)
AutoApplyThresholds == {get_min_relevance_score, DefaultAutoApplyThreshold}

VARIABLES
    now,                  \* the clock, in days
    jobs,                 \* jobs table: sequence indexed by row id
    applications,         \* applications table: sequence indexed by row id
    auto_apply,           \* ApplicationAgent.auto_apply
    auto_apply_threshold, \* config application.auto_apply_threshold
    pc,                   \* per run: where the run is
    queue,                \* per run: the job dicts still to process
    dry_run,              \* per run: ApplicationAgent.run's argument
    card,                 \* per run: the posting ScrapingAgent is inserting
    new_jobs,             \* per posting: times counted in new_jobs_count
    analyzed_by,          \* per job row: times counted in analyzed_count
    max_requests,         \* RateLimiter.max_requests
    time_window,          \* RateLimiter.time_window, in seconds
    clock,                \* time.time(), in seconds
    requests,             \* RateLimiter.requests
    recorded,             \* every timestamp record_request ever appended
    rl_result,            \* what the last RateLimiter call returned
    admitted,             \* the last call was can_make_request, and True
    disciplined,          \* every record_request so far followed such a call
    posting,              \* the job dict handed to analyze_job
    role_types,           \* user_profile['role_types'], lower-cased
    first_result,         \* what the first analyze_job call returned
    score_result,         \* what the latest analyze_job call returned
    config_max_requests,  \* AntiDetectionManager.config.max_requests
    request_count,        \* AntiDetectionManager.request_count
    session_count,        \* AntiDetectionManager.session_count
    calls,                \* check_session_limit calls made so far
    took_break,           \* what the last check_session_limit returned
    batch_agent,          \* the agent whose run() is under way, or "none"
    batch_pc,             \* "idle", "loop" or "returned"
    batch_dry,            \* ApplicationAgent.run's dry_run
    batch_selected,       \* len(jobs_to_analyze), len(jobs_to_apply)
    batch_todo,           \* jobs the for loop has not reached yet
    batch_results,        \* the counters the run returns
    batch_failed,         \* jobs whose processing raised or failed
    batch_today,          \* _get_todays_application_count()
    cover_letters,        \* the job ids that have a cover_letters row
    tried,                \* per run: jobs it called generate_cover_letter on
    failed_letters,       \* jobs for which generate_cover_letter returned None
    stored_keys,          \* (platform, job_id) of the rows insert_job stored
    card_result           \* what the last scraped card came to

pipeline == <<now, jobs, applications, auto_apply, auto_apply_threshold, pc,
              queue, dry_run, card, new_jobs, analyzed_by>>

limiter == <<max_requests, time_window, clock, requests, recorded, rl_result,
             admitted, disciplined>>

scorer == <<posting, role_types, first_result, score_result>>

session == <<config_max_requests, request_count, session_count, calls,
             took_break>>

batch == <<batch_agent, batch_pc, batch_dry, batch_selected, batch_todo,
           batch_results, batch_failed, batch_today>>

letters == <<cover_letters, tried, failed_letters>>

ingest == <<stored_keys, card_result>>

(* What the runs of ScrapingAgent, AnalysisAgent and ApplicationAgent     *)
(* leave alone.                                                           *)
standalone == <<limiter, scorer, session, batch, letters, ingest>>

(* All but the limiter, all but the scorer, all but the session manager,  *)
(* all but the run loop; what a CoverLetterAgent run leaves alone too.    *)
beside_limiter == <<pipeline, scorer, session, batch, letters, ingest>>

beside_scorer == <<pipeline, limiter, session, batch, letters, ingest>>

beside_session == <<pipeline, limiter, scorer, batch, letters, ingest>>

beside_batch == <<pipeline, limiter, scorer, session, letters, ingest>>

beside_letters == <<limiter, scorer, session, batch, ingest>>

beside_ingest == <<pipeline, limiter, scorer, session, batch, letters>>

vars == <<pipeline, standalone>>

db == <<jobs, applications>>

config == <<auto_apply, auto_apply_threshold>>

(* ----------------- the postings a scraper can encounter --------------- *)

(* Text-derived part of the score of posting k: keywords + skills +       *)
(* job type + experience + location.                                      *)
TextScoreTable == <<560, 760, 780>>

TextScore(k) == TextScoreTable[((k - 1) % 3) + 1]

(* post_date a parser gives posting k when it is scraped at time t: the   *)
(* date in a LinkedIn card's <time> element (a posting published three    *)
(* days before the clock starts), datetime.now() for Indeed, None for a   *)
(* LinkedIn card with no <time> element.                                  *)
ParsedPostDate(k, t) ==
    CASE ((k - 1) % 3) = 0 -> 0 - 3
      [] ((k - 1) % 3) = 1 -> t
      [] OTHER -> NULL

(* ------------------------- AnalysisAgent ------------------------------ *)

(* A post_date that fromisoformat rejects, or one with a UTC offset that  *)
(* cannot be subtracted from datetime.now(): the except branch.           *)
InvalidDate == 0 - 999

_calculate_recency_score(post_date, t) ==
    IF post_date = NULL \/ post_date = InvalidDate THEN 25
    ELSE LET days_old == t - post_date IN
         IF days_old <= 1 THEN 50
         ELSE IF days_old <= 3 THEN 40
         ELSE IF days_old <= 7 THEN 30
         ELSE IF days_old <= 14 THEN 20
         ELSE 10

Clamp(x) == IF x < 0 THEN 0 ELSE IF x > 1000 THEN 1000 ELSE x

analyze_job(job, t) ==
    Clamp(TextScore(job.key) + _calculate_recency_score(job.post_date, t))

(* The mutant shortlists only above the minimum.                          *)
StatusForScore_above(score) ==
    IF score > get_min_relevance_score THEN "analyzed"
    ELSE "rejected_low_score"

StatusForScore(score) ==
    IF score >= get_min_relevance_score THEN "analyzed"
    ELSE "rejected_low_score"

(* ------------------ analyze_job on a whole job dict ------------------- *)
(* A field of the dict is absent, None, the empty string, or text.  What  *)
(* the texts of a posting match in the profile is its content: how many   *)
(* high and medium priority keywords and skills the combined text holds,  *)
(* which role-type terms its texts hold, what the seniority and the place *)
(* read as.  requirements and company enter the combined text exactly as  *)
(* description does.                                                      *)

FieldValues == {"absent", "None", "empty", "text"}

Contents ==
    << [high |-> 0, medium |-> 0, skills |-> 0, role_terms |-> {},
        seniority |-> "unclear", place |-> "other"],
       [high |-> 6, medium |-> 2, skills |-> 5, role_terms |-> {},
        seniority |-> "unclear", place |-> "other"],
       [high |-> 11, medium |-> 9, skills |-> 11,
        role_terms |-> {"alternance"},
        seniority |-> "junior", place |-> "preferred"],
       [high |-> 1, medium |-> 0, skills |-> 1, role_terms |-> {"cdi"},
        seniority |-> "senior", place |-> "remote"] >>

(* The role_types a profile lists.                                        *)
RoleTypeLists == {{"alternance", "stage"}, {"stage"}, {"cdi"}}

PostDates == {NULL, InvalidDate, 0 - 3, 0}

PostingDicts ==
    [title : FieldValues, description : FieldValues, location : FieldValues,
     job_type : FieldValues, experience_level : FieldValues,
     post_date : PostDates, content : 1..Len(Contents),
     exclude : 0..MaxExcludeMatches]

(* job.get(f, '') *)
GetOrDefault(v) == IF v = "absent" THEN "empty" ELSE v

(* The mutant reads the field with job.get(f, ''), which passes None on.  *)
OrEmpty_get_default(v) == IF v = "absent" THEN "empty" ELSE v

(* (job.get(f) or '') *)
OrEmpty(v) == IF v = "text" THEN "text" ELSE "empty"

(* v.lower() raises AttributeError on None.                               *)
LowerRaises(v) == v = "None"

Min2(a, b) == IF a < b THEN a ELSE b

(* ' '.join(filter(None, fields)): None and '' are dropped.               *)
_get_combined_text(job) ==
    IF \E f \in {"title", "description", "location"} :
            GetOrDefault(job[f]) = "text"
    THEN "text"
    ELSE "empty"

_calculate_keyword_score(text, c) ==
    IF text = "text" THEN Min2(400, 40 * c.high + 20 * c.medium) ELSE 0

_calculate_skill_score(text, c) ==
    IF text = "text" THEN Min2(300, 30 * c.skills) ELSE 0

(* 'alternance' not in preferred_types *)
CdiUnsuitable(preferred_types) == "alternance" \notin preferred_types

_calculate_job_type_score(job, c) ==
    IF /\ c.role_terms \cap role_types # {}
       /\ \E f \in {"job_type", "title", "description"} : OrEmpty(job[f]) = "text"
    THEN 100
    ELSE IF /\ "cdi" \in c.role_terms
            /\ \E f \in {"title", "description"} : OrEmpty(job[f]) = "text"
            /\ CdiUnsuitable(role_types)
    THEN 30
    ELSE 50

_calculate_experience_score(job, c) ==
    LET said == \E f \in {"title", "description", "experience_level"} :
                    OrEmpty(job[f]) = "text"
    IN IF said /\ c.seniority = "senior" THEN 0
       ELSE IF said /\ c.seniority = "junior" THEN 100
       ELSE 70

_calculate_location_score(job, c) ==
    LET said == OrEmpty(job.location) = "text"
    IN IF said /\ c.place = "preferred" THEN 50
       ELSE IF said /\ c.place = "acceptable" THEN 30
       ELSE IF said /\ c.place = "remote" THEN 40
       ELSE 10

(* 2.0 for each exclusion keyword the text holds, at most 5.0.            *)
_check_exclusions(text, matched) ==
    IF text = "text" THEN Min2(500, 200 * matched) ELSE 0

(* sum(scores.values()): the dict holds the penalty as well.              *)
SumValues(scores) ==
    scores.keywords + scores.skills + scores.job_type + scores.experience
        + scores.location + scores.recency + scores.exclusion_penalty

(* analyze_job has not been called.                                       *)
NoOutcome == [done |-> FALSE]

(* analyze_job(job) called at time t: (round(total_score, 2),             *)
(* match_details['individual_scores']), or the exception it raises.       *)
analyze_job_dict(job, t) ==
    LET c == Contents[job.content]
        text == _get_combined_text(job)
        exclude_penalty == _check_exclusions(text, job.exclude)
        scores ==
            [keywords |-> _calculate_keyword_score(text, c),
             skills |-> _calculate_skill_score(text, c),
             job_type |-> _calculate_job_type_score(job, c),
             experience |-> _calculate_experience_score(job, c),
             location |-> _calculate_location_score(job, c),
             recency |-> _calculate_recency_score(job.post_date, t),
             exclusion_penalty |-> exclude_penalty]
        total_score == Clamp(SumValues(scores) - exclude_penalty)
        raises == \E f \in {"title", "description", "location", "job_type",
                            "experience_level"} : LowerRaises(OrEmpty(job[f]))
    IN IF raises
       THEN [done |-> TRUE, raised |-> TRUE]
       ELSE [done |-> TRUE, raised |-> FALSE, total |-> total_score,
             scores |-> scores]

(* The scorer as the pipeline and the limiter leave it.                   *)
NoScorer ==
    /\ posting = [content |-> 0]
    /\ role_types = {}
    /\ first_result = NoOutcome
    /\ score_result = NoOutcome

(* ------------------------- DatabaseManager ---------------------------- *)

RowIds == 1..Len(jobs)

Live(id) == id \in RowIds /\ ~jobs[id].deleted

LiveIds == {id \in RowIds : Live(id)}

RowsOfKey(k) == {id \in LiveIds : jobs[id].key = k}

(* The mutant looks the posting up under an id that is never stored.      *)
job_exists_other_id(k) == RowsOfKey(k + NumPostings) # {}

job_exists(k) == RowsOfKey(k) # {}

(* The row dict a SELECT * returns.                                       *)
JobDict(id) ==
    [id |-> id, key |-> jobs[id].key, post_date |-> jobs[id].post_date,
     relevance_score |-> jobs[id].relevance_score]

(* schema.sql: jobs are unique on their external key, so INSERT OR        *)
(* REPLACE first deletes the row that holds the key.                      *)
UniqueJobKey == TRUE

(* schema.sql: applications.application_date defaults to the insertion    *)
(* time.                                                                  *)
ApplicationDateDefault(t) == t

NewJobRow(k, post_date) ==
    [key |-> k, status |-> "scraped", relevance_score |-> NULL,
     post_date |-> post_date, match_details |-> "empty", deleted |-> FALSE]

(* The place of a row that was deleted: its id is not given out again.    *)
DeletedRow ==
    [key |-> 0, status |-> "deleted", relevance_score |-> NULL,
     post_date |-> NULL, match_details |-> "empty", deleted |-> TRUE]

insert_job(table, k, post_date) ==
    LET cleared ==
            [id \in 1..Len(table) |->
                IF UniqueJobKey /\ table[id].key = k
                THEN DeletedRow
                ELSE table[id]]
    IN Append(cleared, NewJobRow(k, post_date))

(* UPDATE ... WHERE id = ?: no row, no change, no error.                  *)
update_job_status(table, id, status, relevance_score) ==
    IF id \in 1..Len(table) /\ ~table[id].deleted
    THEN IF relevance_score # NULL
         THEN [table EXCEPT ![id].status = status,
                            ![id].relevance_score = relevance_score]
         ELSE [table EXCEPT ![id].status = status]
    ELSE table

(* The mutant selects every job that has not been applied to.            *)
Matches_get_jobs_for_analysis_unapplied(id) ==
    jobs[id].status # "applied"

Matches_get_jobs_for_analysis(id) ==
    /\ jobs[id].status = "scraped"
    /\ (jobs[id].relevance_score = NULL \/ jobs[id].relevance_score = 0)

Matches_get_shortlisted_jobs(id, min_score) ==
    /\ jobs[id].status = "analyzed"
    /\ jobs[id].relevance_score # NULL
    /\ jobs[id].relevance_score >= min_score
    /\ jobs[id].status # "applied"

DateKey(d) == IF d = NULL THEN 0 - 2000 ELSE d

(* a before b in ORDER BY post_date DESC *)
ByPostDate(a, b) == DateKey(jobs[a].post_date) >= DateKey(jobs[b].post_date)

(* a before b in ORDER BY relevance_score DESC, post_date DESC *)
ByScoreThenDate(a, b) ==
    \/ jobs[a].relevance_score > jobs[b].relevance_score
    \/ /\ jobs[a].relevance_score = jobs[b].relevance_score
       /\ ByPostDate(a, b)

(* Every order of the rows S the ORDER BY allows (ties in any order).     *)
Orderings(S, Before(_, _)) ==
    {s \in [1..Cardinality(S) -> S] :
        /\ \A i, j \in 1..Cardinality(S) : i # j => s[i] # s[j]
        /\ \A i, j \in 1..Cardinality(S) : i < j => Before(s[i], s[j])}

Take(s, n) == SubSeq(s, 1, IF Len(s) < n THEN Len(s) ELSE n)

Dicts(s) == [i \in 1..Len(s) |-> JobDict(s[i])]

today_applications ==
    Cardinality({a \in 1..Len(applications) :
                    applications[a].application_date = now})

HasApplication(id) ==
    \E a \in 1..Len(applications) : applications[a].job_id = id

(* _get_connection: an exception inside the with block rolls back what   *)
(* the block has written; the mutant keeps it (a commit per statement).   *)
Rollback_keeps(committed, written) == written

Rollback(committed, written) == committed

(* The statement of insert_application that raises, if one does.          *)
Failures == {"none", "insert", "update"}

(* INSERT INTO applications, then UPDATE jobs SET status = 'applied', in  *)
(* one with block: committed together, or rolled back when a statement    *)
(* raises.                                                                *)
insert_application(id, fails_at) ==
    LET inserted == Append(applications,
                        [job_id |-> id, status |-> "pending",
                         application_date |-> ApplicationDateDefault(now),
                         response_date |-> NULL])
        updated == IF Live(id) THEN [jobs EXCEPT ![id].status = "applied"]
                   ELSE jobs
    IN CASE fails_at = "none" ->
                /\ applications' = inserted
                /\ jobs' = updated
         [] fails_at = "insert" ->
                /\ applications' = Rollback(applications, applications)
                /\ jobs' = Rollback(jobs, jobs)
         [] fails_at = "update" ->
                /\ applications' = Rollback(applications, inserted)
                /\ jobs' = Rollback(jobs, jobs)

(* The statuses an application is given. *)
ApplicationStatuses ==
    {"pending", "submitted", "rejected", "interview_scheduled",
     "offer_received"}

ResponseStatuses == {"rejected", "interview_scheduled", "offer_received"}

(* UPDATE applications SET status = ?, response_date = CASE WHEN ? IN     *)
(* (...) THEN ? ELSE response_date END WHERE id = ?, at time t.           *)
update_application_status(table, application_id, status, t) ==
    IF application_id \in 1..Len(table)
    THEN [table EXCEPT ![application_id].status = status,
                       ![application_id].response_date =
                            IF status \in ResponseStatuses THEN t ELSE @]
    ELSE table

(* The ids the rows of jobs and of applications take when runs execute   *)
(* one at a time: a row per posting, daily_limit applications a day.      *)
JobIds == 1..NumPostings

ApplicationIds == 1..(daily_limit * (MaxDay + 1))

NoCard == [key |-> 0, post_date |-> NULL]

MaxJobsPerRun == 100

(* The limit CoverLetterAgent.run passes to get_shortlisted_jobs.         *)
CoverLetterLimit == 30

(* The mutant also passes over a job whose generation failed before.      *)
LetterExists_or_failed(id) == id \in cover_letters \/ id \in failed_letters

(* SELECT 1 FROM cover_letters WHERE job_id = ? *)
LetterExists(id) == id \in cover_letters

(* generate_cover_letter(job): the letter is written and                  *)
(* insert_cover_letter stores its row, or an exception on the way is      *)
(* caught and None is returned, with no row stored.                       *)
generate_cover_letter(id, ok) ==
    /\ cover_letters' = IF ok THEN cover_letters \cup {id} ELSE cover_letters
    /\ failed_letters' = IF ok THEN failed_letters
                         ELSE failed_letters \cup {id}

(* No cover letter has been generated.                                    *)
NoLetters ==
    /\ cover_letters = {}
    /\ tried = [r \in Runs |-> {}]
    /\ failed_letters = {}

(* ------------- the parsers of ScrapingAgent and their ids ------------- *)

Platforms == {"linkedin", "indeed", "welcometothejungle"}

(* The external id as the scraped card or API record holds it: no such    *)
(* element, attribute or key; a JSON null; an empty string; or an id.     *)
RawIds == {"absent", "None", "", "101", "102"}

(* A posting lacks its external id.                                       *)
LacksId(raw_id) == raw_id \in {"absent", "None", ""}

NoJobData == [parsed |-> FALSE]

(* _parse_linkedin_job: the id is the digits of /jobs/view/(\d+) in the   *)
(* link; no link or no match returns None.                                *)
_parse_linkedin_job(raw_id) ==
    IF LacksId(raw_id) THEN NoJobData
    ELSE [parsed |-> TRUE, platform |-> "linkedin", job_id |-> raw_id]

(* _parse_indeed_job: data-jk, or the element's id; an empty one returns  *)
(* None.                                                                  *)
_parse_indeed_job(raw_id) ==
    IF LacksId(raw_id) THEN NoJobData
    ELSE [parsed |-> TRUE, platform |-> "indeed", job_id |-> raw_id]

(* _parse_wttj_job: a record with an 'id' key is parsed whatever the id   *)
(* is, job_id = f"wttj_{job_id}"; a record without the key returns None.  *)
_parse_wttj_job(raw_id) ==
    IF raw_id = "absent" THEN NoJobData
    ELSE [parsed |-> TRUE, platform |-> "welcometothejungle",
          job_id |-> raw_id]

ParseCard(platform, raw_id) ==
    CASE platform = "linkedin" -> _parse_linkedin_job(raw_id)
      [] platform = "indeed" -> _parse_indeed_job(raw_id)
      [] platform = "welcometothejungle" -> _parse_wttj_job(raw_id)

(* No card has been scraped.                                              *)
NoIngest ==
    /\ stored_keys = {}
    /\ card_result = [outcome |-> "none"]

(* ---------------- RateLimiter (utils/anti_detection.py) --------------- *)

(* The requests can_make_request keeps at time t.                         *)
Pruned(reqs, t) ==
    LET InWindow(req_time) == t - req_time < time_window
    IN SelectSeq(reqs, InWindow)

(* The mutant admits one request more than max_requests.                  *)
Admits_one_more(reqs) == Len(reqs) <= max_requests

Admits(reqs) == Len(reqs) < max_requests

(* min(self.requests); min of an empty list raises ValueError.            *)
MinOf(reqs) ==
    CHOOSE x \in {reqs[i] : i \in 1..Len(reqs)} :
        \A i \in 1..Len(reqs) : x <= reqs[i]

Max0(x) == IF x < 0 THEN 0 ELSE x

(* No call has returned yet.                                              *)
NoResult == [op |-> "none"]

(* wait_time's outcome on the list reqs at time t: the value returned, or *)
(* the ValueError of min([]).                                             *)
wait_time_outcome(reqs, t) ==
    LET kept == Pruned(reqs, t)
    IN IF Admits(kept)
       THEN [op |-> "wait_time", ok |-> TRUE, wait |-> 0, raised |-> FALSE,
             at |-> t]
       ELSE IF kept = <<>>
       THEN [op |-> "wait_time", ok |-> FALSE, wait |-> 0, raised |-> TRUE,
             at |-> t]
       ELSE [op |-> "wait_time", ok |-> FALSE,
             wait |-> Max0(time_window - (t - MinOf(kept))),
             raised |-> FALSE, at |-> t]

(* The limiter as the pipeline leaves it: no agent constructs one.        *)
NoLimiter ==
    /\ max_requests = 0
    /\ time_window = 1
    /\ clock = 0
    /\ requests = <<>>
    /\ recorded = <<>>
    /\ rl_result = NoResult
    /\ admitted = FALSE
    /\ disciplined = TRUE

(* ------------- AntiDetectionManager (utils/anti_detection.py) --------- *)

(* No manager has been constructed, or none has been called: __init__     *)
(* with the default SessionConfig leaves the same counters.               *)
NoSession ==
    /\ config_max_requests = 0
    /\ request_count = 0
    /\ session_count = 0
    /\ calls = 0
    /\ took_break = FALSE

(* The mutant takes the break one call late.                              *)
SessionLimitReached_late(count) == count > config_max_requests

(* self.request_count >= self.config.max_requests *)
SessionLimitReached(count) == count >= config_max_requests

(* ------------- the for loops of the agents' run() methods ------------- *)

(* No run is under way.                                                   *)
NoResults == [reason |-> "none"]

NoBatch ==
    /\ batch_agent = "none"
    /\ batch_pc = "idle"
    /\ batch_dry = FALSE
    /\ batch_selected = 0
    /\ batch_todo = 0
    /\ batch_results = NoResults
    /\ batch_failed = 0
    /\ batch_today = 0

(* Where the try block of AnalysisAgent.run can raise.                    *)
AnalysisRaises ==
    {"none", "analyze_job", "update_job_status", "match_details",
     "update_platform_stats"}

(* One pass of the try block of AnalysisAgent.run on the counters, for a  *)
(* job that scores at or above the minimum (shortlisted) or below it,     *)
(* with an exception raised at raises_at.                                 *)
AnalysisCounters(c, shortlisted, raises_at) ==
    IF raises_at = "analyze_job" THEN c
    ELSE LET scored == IF shortlisted
                       THEN [c EXCEPT !.shortlisted = @ + 1]
                       ELSE [c EXCEPT !.rejected = @ + 1]
         IN IF raises_at \in {"update_job_status", "match_details"}
            THEN scored
            ELSE [scored EXCEPT !.analyzed = @ + 1]

(* Where the try block of ApplicationAgent.run can raise; "apply_to_job"  *)
(* is an exception caught inside apply_to_job, which returns False.       *)
ApplicationRaises ==
    {"none", "_get_todays_application_count", "_mark_for_review",
     "apply_to_job"}

(* ------------------------------- Init --------------------------------- *)

Init ==
    /\ now = 0
    /\ jobs = <<>>
    /\ applications = <<>>
    /\ auto_apply \in BOOLEAN
    /\ auto_apply_threshold \in AutoApplyThresholds
    /\ ~auto_apply => auto_apply_threshold = DefaultAutoApplyThreshold
    /\ pc = [r \in Runs |-> "idle"]
    /\ queue = [r \in Runs |-> <<>>]
    /\ dry_run = [r \in Runs |-> FALSE]
    /\ card = [r \in Runs |-> NoCard]
    /\ new_jobs = [k \in Postings |-> 0]
    /\ analyzed_by = <<>>
    /\ NoLimiter
    /\ NoScorer
    /\ NoSession
    /\ NoBatch
    /\ NoLetters
    /\ NoIngest

(* A run may start; when runs execute one at a time, only if none is      *)
(* under way.  Runs are interchangeable: a new one takes the first free   *)
(* place.                                                                 *)
CanStart(r, one_at_a_time) ==
    /\ pc[r] = "idle"
    /\ \A q \in Runs : q < r => pc[q] # "idle"
    /\ one_at_a_time => \A q \in Runs : pc[q] = "idle"

Tick ==
    /\ now < MaxDay
    /\ now' = now + 1
    /\ UNCHANGED <<db, config, standalone, pc, queue, dry_run, card, new_jobs, analyzed_by>>

(* -------------------------- ScrapingAgent ----------------------------- *)
(* platform_stats and activity_log are written too; nothing reads them    *)
(* back in the pipeline and they are left out.                            *)

StartScrape(r, one_at_a_time) ==
    /\ CanStart(r, one_at_a_time)
    /\ pc' = [pc EXCEPT ![r] = "scrape"]
    /\ UNCHANGED <<now, db, config, standalone, queue, dry_run, card, new_jobs, analyzed_by>>

(* One job card: parsed, then looked up with job_exists.  A posting that  *)
(* is already stored is a duplicate and is not inserted.                  *)
ScrapeCard(r, k) ==
    /\ pc[r] = "scrape"
    /\ card' = [card EXCEPT ![r] =
                    [key |-> k, post_date |-> ParsedPostDate(k, now)]]
    /\ pc' = [pc EXCEPT ![r] = IF job_exists(k) THEN "duplicate" ELSE "insert"]
    /\ UNCHANGED <<now, db, config, standalone, queue, dry_run, new_jobs, analyzed_by>>

ScrapeInsert(r) ==
    /\ pc[r] = "insert"
    /\ jobs' = insert_job(jobs, card[r].key, card[r].post_date)
    /\ new_jobs' = [new_jobs EXCEPT ![card[r].key] = @ + 1]
    /\ analyzed_by' = Append(analyzed_by, 0)
    /\ card' = [card EXCEPT ![r] = NoCard]
    /\ pc' = [pc EXCEPT ![r] = "scrape"]
    /\ UNCHANGED <<now, applications, config, standalone, queue, dry_run>>

(* A duplicate: on to check_session_limit, the delay and the next card.   *)
SkipDuplicate(r) ==
    /\ pc[r] = "duplicate"
    /\ card' = [card EXCEPT ![r] = NoCard]
    /\ pc' = [pc EXCEPT ![r] = "scrape"]
    /\ UNCHANGED <<now, db, config, standalone, queue, dry_run, new_jobs, analyzed_by>>

FinishScrape(r) ==
    /\ pc[r] = "scrape"
    /\ pc' = [pc EXCEPT ![r] = "idle"]
    /\ UNCHANGED <<now, db, config, standalone, queue, dry_run, card, new_jobs, analyzed_by>>

(* -------------------------- AnalysisAgent.run ------------------------- *)

StartAnalysis(r, one_at_a_time) ==
    /\ CanStart(r, one_at_a_time)
    /\ \E s \in Orderings({id \in LiveIds : Matches_get_jobs_for_analysis(id)},
                          ByPostDate) :
            queue' = [queue EXCEPT ![r] = Dicts(Take(s, MaxJobsPerRun))]
    /\ pc' = [pc EXCEPT ![r] = "analyze"]
    /\ UNCHANGED <<now, db, config, standalone, dry_run, card, new_jobs, analyzed_by>>

(* analyze_job, then update_job_status(job['id'], status, score).         *)
AnalyzeJob(r) ==
    /\ pc[r] = "analyze"
    /\ queue[r] # <<>>
    /\ LET job == Head(queue[r])
           score == analyze_job(job, now)
       IN jobs' = update_job_status(jobs, job.id, StatusForScore(score), score)
    /\ pc' = [pc EXCEPT ![r] = "details"]
    /\ UNCHANGED <<now, applications, config, standalone, queue, dry_run, card, new_jobs,
                   analyzed_by>>

(* UPDATE jobs SET match_details, then analyzed_count += 1.               *)
StoreMatchDetails(r) ==
    /\ pc[r] = "details"
    /\ LET id == Head(queue[r]).id
       IN /\ jobs' = IF Live(id)
                     THEN [jobs EXCEPT ![id].match_details = "scored"]
                     ELSE jobs
          /\ analyzed_by' = [analyzed_by EXCEPT ![id] = @ + 1]
    /\ queue' = [queue EXCEPT ![r] = Tail(@)]
    /\ pc' = [pc EXCEPT ![r] = "analyze"]
    /\ UNCHANGED <<now, applications, config, standalone, dry_run, card, new_jobs>>

FinishAnalysis(r) ==
    /\ pc[r] = "analyze"
    /\ queue[r] = <<>>
    /\ pc' = [pc EXCEPT ![r] = "idle"]
    /\ UNCHANGED <<now, db, config, standalone, queue, dry_run, card, new_jobs, analyzed_by>>

(* ------------------------- ApplicationAgent.run ----------------------- *)

(* The mutant lets the count pass the limit by one.                       *)
DailyLimitReached_after(dry) == ~dry /\ today_applications > daily_limit

DailyLimitReached(dry) == ~dry /\ today_applications >= daily_limit

(* The mutant starts the run whatever the day's count is.                 *)
StartApplication_unchecked(r, one_at_a_time, dry) ==
    /\ CanStart(r, one_at_a_time)
    /\ pc' = [pc EXCEPT ![r] = "select"]
    /\ dry_run' = [dry_run EXCEPT ![r] = dry]
    /\ UNCHANGED <<now, db, config, standalone, queue, card, new_jobs,
                   analyzed_by>>

(* The daily-limit check that opens the run; at the limit the run logs a  *)
(* warning and returns {'reason': 'daily_limit_reached'}.                 *)
StartApplication(r, one_at_a_time, dry) ==
    /\ CanStart(r, one_at_a_time)
    /\ IF DailyLimitReached(dry)
       THEN /\ pc' = [pc EXCEPT ![r] = "daily_limit_reached"]
            /\ UNCHANGED dry_run
       ELSE /\ pc' = [pc EXCEPT ![r] = "select"]
            /\ dry_run' = [dry_run EXCEPT ![r] = dry]
    /\ UNCHANGED <<now, db, config, standalone, queue, card, new_jobs,
                   analyzed_by>>

(* return {'submitted': 0, 'skipped': 0, 'errors': 0,                     *)
(*         'reason': 'daily_limit_reached'}                               *)
ReturnDailyLimitReached(r) ==
    /\ pc[r] = "daily_limit_reached"
    /\ pc' = [pc EXCEPT ![r] = "idle"]
    /\ UNCHANGED <<now, db, config, standalone, queue, dry_run, card,
                   new_jobs, analyzed_by>>

(* _get_jobs_to_apply, first half: get_shortlisted_jobs.                  *)
SelectJobs(r) ==
    /\ pc[r] = "select"
    /\ \E s \in Orderings({id \in LiveIds :
                   Matches_get_shortlisted_jobs(id, get_min_relevance_score)},
                          ByScoreThenDate) :
            queue' = [queue EXCEPT ![r] = Dicts(Take(s, daily_limit * 2))]
    /\ pc' = [pc EXCEPT ![r] = "filter"]
    /\ UNCHANGED <<now, db, config, standalone, dry_run, card, new_jobs, analyzed_by>>

(* _get_jobs_to_apply, second half: drop the jobs that have an            *)
(* application, keep the first daily_limit.  The per-job lookups are      *)
(* read-only and are taken together.                                      *)
FilterJobs(r) ==
    /\ pc[r] = "filter"
    /\ LET NoApplication(job) == ~HasApplication(job.id)
       IN queue' = [queue EXCEPT ![r] =
                        Take(SelectSeq(@, NoApplication), daily_limit)]
    /\ pc' = [pc EXCEPT ![r] = "loop"]
    /\ UNCHANGED <<now, db, config, standalone, dry_run, card, new_jobs, analyzed_by>>

Return(r) ==
    /\ pc' = [pc EXCEPT ![r] = "idle"]
    /\ queue' = [queue EXCEPT ![r] = <<>>]
    /\ dry_run' = [dry_run EXCEPT ![r] = FALSE]

(* Top of the loop: the end of the list, or the daily-limit check.        *)
LoopCheck(r) ==
    /\ pc[r] = "loop"
    /\ IF queue[r] = <<>> \/ DailyLimitReached(dry_run[r])
       THEN Return(r)
       ELSE /\ pc' = [pc EXCEPT ![r] = "act"]
            /\ UNCHANGED <<queue, dry_run>>
    /\ UNCHANGED <<now, db, config, standalone, card, new_jobs, analyzed_by>>

(* The mutant leaves auto_apply out of the test.                          *)
NeedsReview_by_score_alone(job) ==
    job.relevance_score < auto_apply_threshold

NeedsReview(job) ==
    ~auto_apply \/ job.relevance_score < auto_apply_threshold

(* _mark_for_review: update_job_status(job['id'], 'pending_review').      *)
MarkForReview(r) ==
    /\ pc[r] = "act"
    /\ NeedsReview(Head(queue[r]))
    /\ jobs' = update_job_status(jobs, Head(queue[r]).id, "pending_review", NULL)
    /\ queue' = [queue EXCEPT ![r] = Tail(@)]
    /\ pc' = [pc EXCEPT ![r] = "loop"]
    /\ UNCHANGED <<now, applications, config, standalone, dry_run, card, new_jobs,
                   analyzed_by>>

(* apply_to_job: a dry run only logs; otherwise _apply_<platform>         *)
(* records the application with insert_application.  An exception from    *)
(* it is caught in apply_to_job, which returns False; the run counts an   *)
(* error and goes on.                                                     *)
ApplyToJob(r) ==
    /\ pc[r] = "act"
    /\ ~NeedsReview(Head(queue[r]))
    /\ IF dry_run[r]
       THEN UNCHANGED db
       ELSE \E fails_at \in Failures :
                insert_application(Head(queue[r]).id, fails_at)
    /\ queue' = [queue EXCEPT ![r] = Tail(@)]
    /\ pc' = [pc EXCEPT ![r] = "loop"]
    /\ UNCHANGED <<now, config, standalone, dry_run, card, new_jobs, analyzed_by>>

(* --------------------------- CoverLetterAgent ------------------------- *)

(* run(): get_shortlisted_jobs(min_score, limit=30).                      *)
StartCoverLetters(r, one_at_a_time) ==
    /\ CanStart(r, one_at_a_time)
    /\ \E s \in Orderings({id \in LiveIds :
                   Matches_get_shortlisted_jobs(id, get_min_relevance_score)},
                          ByScoreThenDate) :
            queue' = [queue EXCEPT ![r] = Dicts(Take(s, CoverLetterLimit))]
    /\ pc' = [pc EXCEPT ![r] = "letters"]
    /\ UNCHANGED <<now, db, config, beside_letters, letters, dry_run, card,
                   new_jobs, analyzed_by>>

(* The check that opens the loop body: a job that has a letter is passed  *)
(* over.                                                                  *)
CheckLetter(r) ==
    /\ pc[r] = "letters"
    /\ queue[r] # <<>>
    /\ IF LetterExists(Head(queue[r]).id)
       THEN /\ queue' = [queue EXCEPT ![r] = Tail(@)]
            /\ UNCHANGED pc
       ELSE /\ pc' = [pc EXCEPT ![r] = "generate"]
            /\ UNCHANGED queue
    /\ UNCHANGED <<now, db, config, beside_letters, letters, dry_run, card,
                   new_jobs, analyzed_by>>

(* file_path = self.generate_cover_letter(job), counted when not None.    *)
GenerateCoverLetter(r, ok) ==
    /\ pc[r] = "generate"
    /\ generate_cover_letter(Head(queue[r]).id, ok)
    /\ tried' = [tried EXCEPT ![r] = @ \cup {Head(queue[r]).id}]
    /\ queue' = [queue EXCEPT ![r] = Tail(@)]
    /\ pc' = [pc EXCEPT ![r] = "letters"]
    /\ UNCHANGED <<now, db, config, beside_letters, dry_run, card, new_jobs,
                   analyzed_by>>

FinishCoverLetters(r) ==
    /\ pc[r] = "letters"
    /\ queue[r] = <<>>
    /\ pc' = [pc EXCEPT ![r] = "idle"]
    /\ tried' = [tried EXCEPT ![r] = {}]
    /\ UNCHANGED <<now, db, config, beside_letters, cover_letters,
                   failed_letters, queue, dry_run, card, new_jobs, analyzed_by>>

(* run(job_id), as the dashboard calls it: the job is read by its id,     *)
(* whatever its status, and a letter generated for it.                    *)
GenerateForJob(id, ok, one_at_a_time) ==
    /\ one_at_a_time => \A q \in Runs : pc[q] = "idle"
    /\ Live(id)
    /\ generate_cover_letter(id, ok)
    /\ UNCHANGED <<pipeline, beside_letters, tried>>

(* ------------------------ application tracking ------------------------ *)

(* ApplicationAgent.update_application_status(application_id, status),    *)
(* called when the employer's answer is recorded.                         *)
UpdateApplicationStatus(application_id, status, one_at_a_time) ==
    /\ one_at_a_time => \A q \in Runs : pc[q] = "idle"
    /\ application_id \in 1..Len(applications)
    /\ applications' =
            update_application_status(applications, application_id, status, now)
    /\ UNCHANGED <<now, jobs, config, standalone, pc, queue, dry_run, card,
                   new_jobs, analyzed_by>>

(* ---------------------------- specifications -------------------------- *)

Step(one_at_a_time) ==
    \/ Tick
    \/ \E r \in Runs : StartScrape(r, one_at_a_time)
    \/ \E r \in Runs, k \in Postings : ScrapeCard(r, k)
    \/ \E r \in Runs : ScrapeInsert(r)
    \/ \E r \in Runs : SkipDuplicate(r)
    \/ \E r \in Runs : FinishScrape(r)
    \/ \E r \in Runs : StartAnalysis(r, one_at_a_time)
    \/ \E r \in Runs : AnalyzeJob(r)
    \/ \E r \in Runs : StoreMatchDetails(r)
    \/ \E r \in Runs : FinishAnalysis(r)
    \/ \E r \in Runs, dry \in BOOLEAN : StartApplication(r, one_at_a_time, dry)
    \/ \E r \in Runs : ReturnDailyLimitReached(r)
    \/ \E r \in Runs : SelectJobs(r)
    \/ \E r \in Runs : FilterJobs(r)
    \/ \E r \in Runs : LoopCheck(r)
    \/ \E r \in Runs : MarkForReview(r)
    \/ \E r \in Runs : ApplyToJob(r)

(* Runs interleave step by step. *)
Next == Step(FALSE)

Spec == Init /\ [][Next]_vars

(* Runs execute one at a time. *)
NextSeq == Step(TRUE)

SpecSeq == Init /\ [][NextSeq]_vars

(* The pipeline with the runs of CoverLetterAgent, one run at a time.     *)
NextCL ==
    \/ NextSeq
    \/ \E r \in Runs : StartCoverLetters(r, TRUE)
    \/ \E r \in Runs : CheckLetter(r)
    \/ \E r \in Runs, ok \in BOOLEAN : GenerateCoverLetter(r, ok)
    \/ \E r \in Runs : FinishCoverLetters(r)
    \/ \E id \in JobIds, ok \in BOOLEAN : GenerateForJob(id, ok, TRUE)

SpecCL == Init /\ [][NextCL]_vars

(* The pipeline with the status updates of its applications, one run at  *)
(* a time.                                                                *)
NextTrack ==
    \/ NextSeq
    \/ \E a \in ApplicationIds, status \in ApplicationStatuses :
            UpdateApplicationStatus(a, status, TRUE)

SpecTrack == Init /\ [][NextTrack]_vars

(* ------------------------------ RateLimiter --------------------------- *)

(* The pipeline as the limiter leaves it: nothing stored, no run.         *)
NoPipeline ==
    /\ now = 0
    /\ jobs = <<>>
    /\ applications = <<>>
    /\ auto_apply = FALSE
    /\ auto_apply_threshold = DefaultAutoApplyThreshold
    /\ pc = [r \in Runs |-> "idle"]
    /\ queue = [r \in Runs |-> <<>>]
    /\ dry_run = [r \in Runs |-> FALSE]
    /\ card = [r \in Runs |-> NoCard]
    /\ new_jobs = [k \in Postings |-> 0]
    /\ analyzed_by = <<>>

(* RateLimiter.__init__(max_requests, time_window).                       *)
InitRL ==
    /\ NoPipeline
    /\ max_requests \in 0..MaxRequestsBound
    /\ time_window \in 1..MaxTimeWindow
    /\ clock = 0
    /\ requests = <<>>
    /\ recorded = <<>>
    /\ rl_result = NoResult
    /\ admitted = FALSE
    /\ disciplined = TRUE
    /\ NoScorer
    /\ NoSession
    /\ NoBatch
    /\ NoLetters
    /\ NoIngest

(* The clock advances by a second.                                        *)
Advance ==
    /\ clock < MaxClock
    /\ clock' = clock + 1
    /\ UNCHANGED <<beside_limiter, max_requests, time_window, requests, recorded,
                   rl_result, admitted, disciplined>>

can_make_request ==
    /\ requests' = Pruned(requests, clock)
    /\ rl_result' = [op |-> "can_make_request", ok |-> Admits(requests'),
                     wait |-> 0, raised |-> FALSE, at |-> clock]
    /\ admitted' = Admits(requests')
    /\ UNCHANGED <<beside_limiter, max_requests, time_window, clock, recorded,
                   disciplined>>

(* wait_time calls can_make_request, which prunes the list.               *)
wait_time ==
    /\ requests' = Pruned(requests, clock)
    /\ rl_result' = wait_time_outcome(requests, clock)
    /\ admitted' = FALSE
    /\ UNCHANGED <<beside_limiter, max_requests, time_window, clock, recorded,
                   disciplined>>

record_request ==
    /\ Len(recorded) < MaxRecorded
    /\ requests' = Append(requests, clock)
    /\ recorded' = Append(recorded, clock)
    /\ rl_result' = [op |-> "record_request", ok |-> FALSE, wait |-> 0,
                     raised |-> FALSE, at |-> clock]
    /\ disciplined' = (disciplined /\ admitted)
    /\ admitted' = FALSE
    /\ UNCHANGED <<beside_limiter, max_requests, time_window, clock>>

(* wait_if_needed: wait_time, then time.sleep(wait + 1) when wait > 0.    *)
wait_if_needed ==
    LET out == wait_time_outcome(requests, clock)
        slept == IF out.wait > 0 THEN out.wait + 1 ELSE 0
    IN /\ clock + slept <= MaxClock
       /\ requests' = Pruned(requests, clock)
       /\ rl_result' = [out EXCEPT !.op = "wait_if_needed"]
       /\ clock' = clock + slept
       /\ admitted' = FALSE
       /\ UNCHANGED <<beside_limiter, max_requests, time_window, recorded,
                      disciplined>>

NextRL ==
    \/ Advance
    \/ can_make_request
    \/ wait_time
    \/ record_request
    \/ wait_if_needed

SpecRL == InitRL /\ [][NextRL]_vars

(* ------------------------------ analyze_job --------------------------- *)

InitScore ==
    /\ NoPipeline
    /\ NoLimiter
    /\ posting \in PostingDicts
    /\ role_types \in RoleTypeLists
    /\ first_result = NoOutcome
    /\ score_result = NoOutcome
    /\ NoSession
    /\ NoBatch
    /\ NoLetters
    /\ NoIngest

(* analyze_job(posting) is called now.                                    *)
CallAnalyzeJob ==
    /\ score_result' = analyze_job_dict(posting, now)
    /\ first_result' = IF first_result.done THEN first_result ELSE score_result'
    /\ UNCHANGED <<beside_scorer, posting, role_types>>

NextScore ==
    \/ Tick
    \/ CallAnalyzeJob

SpecScore == InitScore /\ [][NextScore]_vars

(* -------------------------- AntiDetectionManager ---------------------- *)

(* AntiDetectionManager(SessionConfig(max_requests=...)).                 *)
InitAD ==
    /\ NoPipeline
    /\ NoLimiter
    /\ NoScorer
    /\ config_max_requests \in 0..MaxSessionRequests
    /\ request_count = 0
    /\ session_count = 0
    /\ calls = 0
    /\ took_break = FALSE
    /\ NoBatch
    /\ NoLetters
    /\ NoIngest

(* check_session_limit, with the _take_break it calls when the limit is   *)
(* reached: the sleep, then the reset of the session.                     *)
check_session_limit ==
    /\ calls < MaxCalls
    /\ calls' = calls + 1
    /\ IF SessionLimitReached(request_count + 1)
       THEN /\ request_count' = 0
            /\ session_count' = session_count + 1
            /\ took_break' = TRUE
       ELSE /\ request_count' = request_count + 1
            /\ session_count' = session_count
            /\ took_break' = FALSE
    /\ UNCHANGED <<beside_session, config_max_requests>>

NextAD == check_session_limit

SpecAD == InitAD /\ [][NextAD]_vars

(* ------------------- the run loops and their summaries ---------------- *)

InitBatch ==
    /\ NoPipeline
    /\ NoLimiter
    /\ NoScorer
    /\ NoSession
    /\ NoBatch
    /\ NoLetters
    /\ NoIngest

(* AnalysisAgent.run up to the loop: n jobs come back from                *)
(* get_jobs_for_analysis.                                                 *)
AnalysisRun_start(n) ==
    /\ batch_pc = "idle"
    /\ batch_agent' = "analysis"
    /\ batch_pc' = "loop"
    /\ batch_selected' = n
    /\ batch_todo' = n
    /\ batch_results' = [reason |-> "done", analyzed |-> 0, shortlisted |-> 0,
                         rejected |-> 0]
    /\ batch_failed' = 0
    /\ UNCHANGED <<beside_batch, batch_dry, batch_today>>

(* One iteration of the loop of AnalysisAgent.run: the try block, and the *)
(* except branch that logs the error and continues.                       *)
AnalysisRun_job(shortlisted, raises_at) ==
    /\ batch_agent = "analysis"
    /\ batch_pc = "loop"
    /\ batch_todo > 0
    /\ batch_todo' = batch_todo - 1
    /\ batch_results' = AnalysisCounters(batch_results, shortlisted, raises_at)
    /\ batch_failed' = IF raises_at = "none" THEN batch_failed
                       ELSE batch_failed + 1
    /\ UNCHANGED <<beside_batch, batch_agent, batch_pc, batch_dry,
                   batch_selected, batch_today>>

(* The end of the loop: the run logs and returns its counters.            *)
AnalysisRun_return ==
    /\ batch_agent = "analysis"
    /\ batch_pc = "loop"
    /\ batch_todo = 0
    /\ batch_pc' = "returned"
    /\ UNCHANGED <<beside_batch, batch_agent, batch_dry, batch_selected,
                   batch_todo, batch_results, batch_failed, batch_today>>

(* ApplicationAgent.run(dry_run) up to the loop: the daily-limit check,   *)
(* then n jobs come back from _get_jobs_to_apply.                         *)
ApplicationRun_start(n, dry, today) ==
    /\ batch_pc = "idle"
    /\ batch_agent' = "application"
    /\ batch_dry' = dry
    /\ batch_today' = today
    /\ batch_failed' = 0
    /\ IF ~dry /\ today >= daily_limit
       THEN /\ batch_pc' = "returned"
            /\ batch_selected' = 0
            /\ batch_todo' = 0
            /\ batch_results' = [reason |-> "daily_limit_reached",
                                 submitted |-> 0, skipped |-> 0, errors |-> 0,
                                 pending_review |-> 0]
       ELSE /\ batch_pc' = "loop"
            /\ batch_selected' = n
            /\ batch_todo' = n
            /\ batch_results' = [reason |-> "done", submitted |-> 0,
                                 skipped |-> 0, errors |-> 0,
                                 pending_review |-> 0]
    /\ UNCHANGED beside_batch

(* One iteration of the loop of ApplicationAgent.run: the daily-limit     *)
(* check and its break, the review branch, apply_to_job, and the except   *)
(* branch that counts an error.                                           *)
ApplicationRun_job(needs_review, raises_at) ==
    /\ batch_agent = "application"
    /\ batch_pc = "loop"
    /\ batch_todo > 0
    /\ raises_at = "_get_todays_application_count" => ~batch_dry
    /\ raises_at = "_mark_for_review" => needs_review
    /\ raises_at = "apply_to_job" => ~needs_review /\ ~batch_dry
    /\ IF raises_at = "_get_todays_application_count"
       THEN /\ batch_results' = [batch_results EXCEPT !.errors = @ + 1]
            /\ batch_failed' = batch_failed + 1
            /\ batch_todo' = batch_todo - 1
            /\ UNCHANGED <<batch_pc, batch_today>>
       ELSE IF ~batch_dry /\ batch_today >= daily_limit
       THEN /\ batch_pc' = "returned"
            /\ UNCHANGED <<batch_results, batch_failed, batch_todo,
                           batch_today>>
       ELSE IF raises_at # "none"
       THEN /\ batch_results' = [batch_results EXCEPT !.errors = @ + 1]
            /\ batch_failed' = batch_failed + 1
            /\ batch_todo' = batch_todo - 1
            /\ UNCHANGED <<batch_pc, batch_today>>
       ELSE IF needs_review
       THEN /\ batch_results' =
                    [batch_results EXCEPT !.pending_review = @ + 1]
            /\ batch_todo' = batch_todo - 1
            /\ UNCHANGED <<batch_pc, batch_failed, batch_today>>
       ELSE /\ batch_results' = [batch_results EXCEPT !.submitted = @ + 1]
            /\ batch_today' = IF batch_dry THEN batch_today
                              ELSE batch_today + 1
            /\ batch_todo' = batch_todo - 1
            /\ UNCHANGED <<batch_pc, batch_failed>>
    /\ UNCHANGED <<beside_batch, batch_agent, batch_dry, batch_selected>>

(* The end of the loop: the run logs and returns results.                 *)
ApplicationRun_return ==
    /\ batch_agent = "application"
    /\ batch_pc = "loop"
    /\ batch_todo = 0
    /\ batch_pc' = "returned"
    /\ UNCHANGED <<beside_batch, batch_agent, batch_dry, batch_selected,
                   batch_todo, batch_results, batch_failed, batch_today>>

NextBatch ==
    \/ \E n \in 0..MaxBatch : AnalysisRun_start(n)
    \/ \E shortlisted \in BOOLEAN, raises_at \in AnalysisRaises :
            AnalysisRun_job(shortlisted, raises_at)
    \/ AnalysisRun_return
    \/ \E n \in 0..MaxBatch, dry \in BOOLEAN, today \in 0..daily_limit :
            ApplicationRun_start(n, dry, today)
    \/ \E needs_review \in BOOLEAN, raises_at \in ApplicationRaises :
            ApplicationRun_job(needs_review, raises_at)
    \/ ApplicationRun_return

SpecBatch == InitBatch /\ [][NextBatch]_vars

(* ----------------------- scraped cards and their ids ------------------ *)

InitIngest ==
    /\ NoPipeline
    /\ NoLimiter
    /\ NoScorer
    /\ NoSession
    /\ NoBatch
    /\ NoLetters
    /\ NoIngest

(* One card of a scraping loop: parsed, looked up with job_exists, and    *)
(* stored with insert_job when the parser returned job data that is not   *)
(* stored yet.                                                            *)
scrape_card(platform, raw_id) ==
    LET job_data == ParseCard(platform, raw_id)
        key == <<platform, job_data.job_id>>
    IN /\ IF ~job_data.parsed
          THEN /\ card_result' = [outcome |-> "no_job_data",
                                  platform |-> platform, raw_id |-> raw_id]
               /\ UNCHANGED stored_keys
          ELSE IF key \in stored_keys
          THEN /\ card_result' = [outcome |-> "job_exists",
                                  platform |-> platform, raw_id |-> raw_id]
               /\ UNCHANGED stored_keys
          ELSE /\ card_result' = [outcome |-> "inserted",
                                  platform |-> platform, raw_id |-> raw_id]
               /\ stored_keys' = stored_keys \cup {key}
       /\ UNCHANGED beside_ingest

NextIngest == \E platform \in Platforms, raw_id \in RawIds :
                  scrape_card(platform, raw_id)

SpecIngest == InitIngest /\ [][NextIngest]_vars

(* ------------------------------ properties ---------------------------- *)

StatusChanged(id) ==
    /\ Live(id)
    /\ ~jobs'[id].deleted
    /\ jobs'[id].status # jobs[id].status

(* C1: a job whose status becomes 'applied' was, immediately before,      *)
(* shortlisted: status 'analyzed' with relevance_score >= the minimum.    *)
C1_AppliedOnlyFromShortlisted ==
    [][\A id \in RowIds :
          (StatusChanged(id) /\ jobs'[id].status = "applied")
          => /\ jobs[id].status = "analyzed"
             /\ jobs[id].relevance_score >= get_min_relevance_score]_vars

(* C2: of the analysis runs that read a job as 'scraped', exactly one     *)
(* counts it as analyzed.                                                 *)
C2_AnalyzedByOneRun ==
    \A id \in 1..Len(analyzed_by) : analyzed_by[id] <= 1

Settled == {"applied", "pending_review", "rejected_low_score"}

(* C3: once a job is 'applied', 'pending_review' or 'rejected_low_score', *)
(* no later write gives it another status.                                *)
C3_StatusNeverMovesBack ==
    [][\A id \in RowIds :
          (Live(id) /\ jobs[id].status \in Settled) => ~StatusChanged(id)]_vars

IsAnalysisWrite(r) == pc[r] = "analyze" /\ pc'[r] = "details"

IsApplicationWrite(r) == pc[r] = "act" /\ pc'[r] = "loop" /\ ~dry_run[r]

(* C4: a status write to a job that is not in the source state of the     *)
(* transition (an analysis result for a job no longer 'scraped', a review *)
(* mark or an application for a job no longer 'analyzed') changes         *)
(* nothing in the store.                                                  *)
C4_UnexpectedStateWriteRejected ==
    [][\A r \in Runs :
          /\ (/\ IsAnalysisWrite(r)
              /\ Live(Head(queue[r]).id)
              /\ jobs[Head(queue[r]).id].status # "scraped")
             => UNCHANGED db
          /\ (/\ IsApplicationWrite(r)
              /\ Live(Head(queue[r]).id)
              /\ jobs[Head(queue[r]).id].status # "analyzed")
             => UNCHANGED db]_vars

(* The lifecycle graph of the specification in the code's status names:   *)
(* ingested is 'scraped', shortlisted is 'analyzed'; 'scored' is passed   *)
(* through within the scoring write.                                      *)
LifecycleEdges ==
    { <<"scraped", "analyzed">>, <<"scraped", "rejected_low_score">>,
      <<"analyzed", "pending_review">>, <<"analyzed", "letters_generated">>,
      <<"pending_review", "applied">>, <<"pending_review", "skipped">>,
      <<"letters_generated", "applied">>,
      <<"applied", "submitted">>, <<"applied", "error">> }

(* C5: every status change of a job is an edge of the lifecycle graph; a  *)
(* shortlisted job is never moved straight to 'applied'.                  *)
C5_ChangesAreLifecycleEdges ==
    [][\A id \in RowIds :
          StatusChanged(id)
          => <<jobs[id].status, jobs'[id].status>> \in LifecycleEdges]_vars

(* C6: the store holds one job record per posting; the insert that made   *)
(* it was counted as a new job once, nothing was replaced, and a posting  *)
(* is only ever inserted when it is not stored.                           *)
C6_OneRecordPerPosting ==
    /\ \A k \in Postings :
          /\ Cardinality(RowsOfKey(k)) <= 1
          /\ new_jobs[k] = Cardinality(RowsOfKey(k))
    /\ \A id \in RowIds : ~jobs[id].deleted
    /\ \A r \in Runs :
          /\ pc[r] = "insert" => ~job_exists(card[r].key)
          /\ pc[r] = "duplicate" => job_exists(card[r].key)

(* C6 witness: a later run meets a posting that an earlier run stored and *)
(* that has been analysed since.                                          *)
C6_Witness ==
    \E r \in Runs :
        /\ pc[r] = "duplicate"
        /\ \E id \in RowsOfKey(card[r].key) : jobs[id].status # "scraped"
        /\ new_jobs[card[r].key] = 1

StoredState(k) ==
    {<<jobs[id].status, jobs[id].relevance_score>> : id \in RowsOfKey(k)}

(* C7: insert_job for a posting that is already stored leaves the stored  *)
(* job's status and relevance_score as they were.                         *)
C7_ReingestKeepsStatusAndScore ==
    [][\A r \in Runs, k \in Postings :
          (pc[r] = "insert" /\ pc'[r] = "scrape" /\ card[r].key = k
                /\ job_exists(k))
          => StoredState(k)' = StoredState(k)]_vars

ApplicationsOn(day) ==
    Cardinality({a \in 1..Len(applications) :
                    applications[a].application_date = day})

(* C8: runs executed one at a time never record more than daily_limit     *)
(* applications on one day, and no application is dated ahead of the      *)
(* clock, so the count for a new day starts at zero.                      *)
C8_DailyLimitPerDay ==
    /\ \A day \in 0..now : ApplicationsOn(day) <= daily_limit
    /\ \A a \in 1..Len(applications) : applications[a].application_date <= now

(* C8 witness: the first day was filled to the limit and an application   *)
(* was admitted again on the next day.                                    *)
C8_Witness ==
    /\ now >= 1
    /\ ApplicationsOn(0) = daily_limit
    /\ ApplicationsOn(now) >= 1

(* C9: under interleaved runs, today's applications never exceed          *)
(* daily_limit.                                                           *)
C9_TodayWithinLimit == today_applications <= daily_limit

OpenApplications(id) ==
    {a \in 1..Len(applications) :
        /\ applications[a].job_id = id
        /\ applications[a].status \in {"pending", "submitted"}}

(* C10: each job has at most one application that is pending or           *)
(* submitted.                                                             *)
C10_OneOpenApplicationPerJob ==
    \A id \in RowIds : Cardinality(OpenApplications(id)) <= 1

(* ------------------------- RateLimiter properties --------------------- *)

(* Recorded requests with a timestamp in the interval [t, t + time_window) *)
InWindowFrom(t) ==
    {i \in 1..Len(recorded) : t <= recorded[i] /\ recorded[i] < t + time_window}

(* C11: for a caller that records a request only directly after           *)
(* can_make_request returned True, no interval [t, t + time_window) holds *)
(* the timestamps of more than max_requests recorded requests.            *)
C11_RollingWindowWithinMax ==
    disciplined =>
        \A t \in 0..MaxClock : Cardinality(InWindowFrom(t)) <= max_requests

(* C11 witness: such a caller has recorded more than max_requests         *)
(* requests over time and is refused now.                                 *)
C11_Witness ==
    /\ disciplined
    /\ max_requests >= 1
    /\ Len(recorded) > max_requests
    /\ rl_result.op = "can_make_request"
    /\ ~rl_result.ok
    /\ rl_result.at = clock

AdmitsAt(t) == Admits(Pruned(requests, t))

(* C12: for the same caller, wait_time returns (it does not raise), and   *)
(* returns 0 exactly when can_make_request would admit; otherwise it      *)
(* returns time_window minus the age of the oldest recorded timestamp,    *)
(* which is not negative and is the least advance of the clock after      *)
(* which can_make_request admits.                                         *)
C12_WaitTimeIsMinimalWait ==
    (disciplined /\ rl_result.op = "wait_time" /\ rl_result.at = clock) =>
        /\ ~rl_result.raised
        /\ (rl_result.wait = 0) <=> AdmitsAt(clock)
        /\ rl_result.wait >= 0
        /\ ~AdmitsAt(clock) =>
              /\ rl_result.wait = time_window - (clock - MinOf(requests))
              /\ AdmitsAt(clock + rl_result.wait)
              /\ \A d \in 0..(rl_result.wait - 1) : ~AdmitsAt(clock + d)

(* ------------------------- pipeline properties, continued ------------- *)

SumOfSix(scores) ==
    scores.keywords + scores.skills + scores.job_type + scores.experience
        + scores.location + scores.recency

(* C14: the score analyze_job returns is the sum of the six components    *)
(* less the exclusion penalty, clamped to 0..10: exclusion matches lower  *)
(* an unclamped total by exactly the penalty.                             *)
C14_TotalIsSumLessPenalty ==
    (score_result.done /\ ~score_result.raised) =>
        score_result.total =
            Clamp(SumOfSix(score_result.scores)
                    - score_result.scores.exclusion_penalty)

(* C15: for every posting, whichever of its fields are absent, None or    *)
(* empty, analyze_job returns a score, and the score lies in 0..10.       *)
C15_ScoreReturnedWithinRange ==
    score_result.done =>
        /\ ~score_result.raised
        /\ score_result.total >= 0
        /\ score_result.total <= 1000

(* C15 witness: a posting with None, empty and absent fields and an       *)
(* unparseable date has been scored, to the neutral contributions.        *)
C15_Witness ==
    /\ score_result.done
    /\ posting.title = "None"
    /\ posting.description = "empty"
    /\ posting.location = "absent"
    /\ posting.job_type = "None"
    /\ posting.experience_level = "None"
    /\ posting.post_date = InvalidDate
    /\ posting.content = 3
    /\ score_result.total = 50 + 70 + 10 + 25

(* C16: two analyze_job calls on the same posting with the same profile   *)
(* return the same score and the same match details, whenever they are    *)
(* made.                                                                  *)
C16_SameScoreWhenever ==
    (first_result.done /\ score_result.done) => first_result = score_result

(* C17: the status an analysis run writes for a job is 'analyzed' exactly *)
(* when the score it computed is at least the minimum relevance score and *)
(* 'rejected_low_score' otherwise, and the score is stored with it; so a  *)
(* shortlisted job always has a stored score, not null and at least the   *)
(* minimum.                                                               *)
C17_ShortlistedIffScoreAtLeastMin ==
    /\ [](\A id \in LiveIds :
            /\ jobs[id].status = "analyzed"
                  => /\ jobs[id].relevance_score # NULL
                     /\ jobs[id].relevance_score >= get_min_relevance_score
            /\ jobs[id].status = "rejected_low_score"
                  => /\ jobs[id].relevance_score # NULL
                     /\ jobs[id].relevance_score < get_min_relevance_score)
    /\ [][\A r \in Runs :
             IsAnalysisWrite(r)
             => /\ jobs'[Head(queue[r]).id].relevance_score
                      = analyze_job(Head(queue[r]), now)
                /\ jobs'[Head(queue[r]).id].status
                      \in {"analyzed", "rejected_low_score"}]_vars

(* C17 witness: a job scored exactly the minimum is shortlisted.          *)
C17_Witness ==
    \E id \in LiveIds :
        /\ jobs[id].status = "analyzed"
        /\ jobs[id].relevance_score = get_min_relevance_score
        /\ analyzed_by[id] = 1

AnalysisUnderWay ==
    \E r \in Runs : pc[r] \in {"analyze", "details"} \/ pc'[r] = "analyze"

(* The jobs a run has selected and not yet begun to process.              *)
Waiting(r) ==
    IF pc[r] = "details" THEN Tail(queue[r])
    ELSE IF pc[r] = "analyze" THEN queue[r]
    ELSE <<>>

(* C18: an analysis run selects only jobs no earlier run has processed    *)
(* (they are still 'scraped'), and no step of an analysis run changes     *)
(* the status, relevance_score or match_details of a job that has been    *)
(* processed.                                                             *)
C18_RerunLeavesScoredJobs ==
    /\ [](\A r \in Runs : \A i \in 1..Len(Waiting(r)) :
            /\ jobs[Waiting(r)[i].id].status = "scraped"
            /\ analyzed_by[Waiting(r)[i].id] = 0)
    /\ [][AnalysisUnderWay
            => \A id \in RowIds : analyzed_by[id] >= 1 => jobs'[id] = jobs[id]]_vars

(* C18 witness: a later analysis run has a new job to process while a job *)
(* an earlier run scored has since been marked for review or applied to.  *)
C18_Witness ==
    /\ \E r \in Runs : pc[r] = "analyze" /\ queue[r] # <<>>
    /\ \E id \in LiveIds :
          /\ jobs[id].status \in {"pending_review", "applied"}
          /\ jobs[id].match_details = "scored"

(* C19: status, relevance_score and match details of a scored job become  *)
(* visible together: no job is out of 'scraped' with its match details    *)
(* missing.                                                               *)
C19_ScoredWithMatchDetails ==
    \A id \in LiveIds :
        jobs[id].status # "scraped" => jobs[id].match_details = "scored"

(* C20: an application row appears in the same step in which its job      *)
(* becomes 'applied', and a job becomes 'applied' only in a step that     *)
(* adds its application row; insert_application commits both effects or,  *)
(* when a statement fails, neither.  With runs one at a time a job        *)
(* therefore has an application row exactly when its status is 'applied'. *)
C20_ApplicationRowIffApplied ==
    /\ [](\A id \in LiveIds :
            HasApplication(id) <=> jobs[id].status = "applied")
    /\ [][/\ Len(applications') > Len(applications)
              => /\ Len(applications') = Len(applications) + 1
                 /\ Live(applications'[Len(applications')].job_id)
                      => jobs'[applications'[Len(applications')].job_id].status
                            = "applied"
           /\ \A id \in RowIds :
                (StatusChanged(id) /\ jobs'[id].status = "applied")
                => /\ Len(applications') = Len(applications) + 1
                   /\ applications'[Len(applications')].job_id = id]_vars

(* C20 witness: a non-dry run has been through its one job, which needed  *)
(* no review, and insert_application failed: no application exists and    *)
(* the job is still shortlisted.                                          *)
C20_Witness ==
    /\ \E r \in Runs : pc[r] = "loop" /\ ~dry_run[r] /\ queue[r] = <<>>
    /\ applications = <<>>
    /\ LiveIds # {}
    /\ \A id \in LiveIds :
          /\ Matches_get_shortlisted_jobs(id, get_min_relevance_score)
          /\ ~NeedsReview(JobDict(id))

(* C21: with max_requests >= 1, check_session_limit returns True and      *)
(* takes a session break exactly on every max_requests-th call, after     *)
(* which request_count is 0 and session_count has grown by one; between   *)
(* calls 0 <= request_count < max_requests.                               *)
C21_BreakOnEveryMaxRequestsThCall ==
    /\ [](config_max_requests >= 1 =>
            /\ 0 <= request_count
            /\ request_count < config_max_requests
            /\ took_break = (calls > 0 /\ calls % config_max_requests = 0)
            /\ session_count = calls \div config_max_requests)
    /\ [][(config_max_requests >= 1 /\ took_break' /\ calls' # calls) =>
            /\ request_count' = 0
            /\ session_count' = session_count + 1]_vars

(* The second break of a session limit of three: the sixth call.          *)
C21_Witness ==
    /\ config_max_requests = 3
    /\ calls = 6
    /\ took_break
    /\ request_count = 0
    /\ session_count = 2

(* The jobs the loop has been through.                                    *)
BatchProcessed == batch_selected - batch_todo

(* The jobs the returned counters speak of: the analyzed ones, or the     *)
(* submitted, skipped, failed and held-for-review ones.                   *)
BatchAccounted ==
    IF batch_agent = "analysis"
    THEN batch_results.analyzed
    ELSE batch_results.submitted + batch_results.skipped
            + batch_results.errors + batch_results.pending_review

(* C22: an exception raised while processing one job does not abort the   *)
(* batch: when the run returns, every selected job has been processed     *)
(* unless the daily limit stopped the run, and every processed job, the   *)
(* failed ones included, is counted in the returned summary.              *)
C22_FailedJobsAccountedFor ==
    batch_pc = "returned" =>
        /\ batch_todo = 0
           \/ (batch_agent = "application" /\ ~batch_dry
                    /\ batch_today >= daily_limit)
        /\ BatchAccounted = BatchProcessed

(* A step of CoverLetterAgent: of one of its runs, or of run(job_id).     *)
IsCoverLetterStep ==
    \/ \E r \in Runs : pc[r] \in {"letters", "generate"}
    \/ \E r \in Runs : pc'[r] \in {"letters", "generate"}
    \/ letters' # letters

Shortlisted(id) ==
    Live(id) /\ Matches_get_shortlisted_jobs(id, get_min_relevance_score)

C24_ResponseDateSetOnce ==
    [][\A a \in 1..Len(applications) :
        /\ applications[a].response_date # NULL =>
                applications'[a].response_date = applications[a].response_date
        /\ (applications[a].response_date = NULL
                /\ applications'[a] # applications[a]) =>
                applications'[a].response_date =
                    IF applications'[a].status \in ResponseStatuses
                    THEN now ELSE NULL]_vars

(* C25: a posting that lacks its external id is rejected and never        *)
(* stored: no stored row has a missing id, and the card of such a posting *)
(* ends with no job data, which is not the duplicate outcome.             *)
C25_PostingWithoutIdRejected ==
    /\ \A key \in stored_keys : ~LacksId(key[2])
    /\ (card_result.outcome # "none" /\ LacksId(card_result.raw_id)) =>
            card_result.outcome = "no_job_data"

(* The texts the job-type score reads hold a term.                        *)
TextHolds(fields, term) ==
    /\ term \in Contents[posting.content].role_terms
    /\ \E f \in fields : OrEmpty(posting[f]) = "text"

(* C26: the job-type score is 1.0 if the job_type field or the title or   *)
(* description holds a preferred role-type term; otherwise 0.3 whenever   *)
(* 'cdi' is in the title or description and the profile does not prefer   *)
(* permanent roles; otherwise 0.5.                                        *)
C26_JobTypeScoreByCases ==
    (score_result.done /\ ~score_result.raised) =>
        score_result.scores.job_type =
            IF \E term \in role_types :
                    TextHolds({"job_type", "title", "description"}, term)
            THEN 100
            ELSE IF TextHolds({"title", "description"}, "cdi")
                        /\ "cdi" \notin role_types
            THEN 30
            ELSE 50

(* C27: the recency score follows the whole days between now and          *)
(* post_date (0.5 up to 1 day, 0.4 up to 3, 0.3 up to 7, 0.2 up to 14,    *)
(* 0.1 beyond); an unparseable post_date gives 0.1, and only a missing    *)
(* post_date gives the neutral 0.25.                                      *)
C27_RecencyScoreByAge ==
    [][(score_result' # score_result /\ ~score_result'.raised) =>
        score_result'.scores.recency =
            IF posting.post_date = NULL THEN 25
            ELSE IF posting.post_date = InvalidDate THEN 10
            ELSE IF now - posting.post_date <= 1 THEN 50
            ELSE IF now - posting.post_date <= 3 THEN 40
            ELSE IF now - posting.post_date <= 7 THEN 30
            ELSE IF now - posting.post_date <= 14 THEN 20
            ELSE 10]_vars

(* C28: a dry run only simulates: while it is under way no application    *)
(* row is inserted and no job's status changes, so the shortlisted jobs   *)
(* are the same before and after the run.                                 *)
C28_DryRunChangesNothing ==
    [][(\E r \in Runs : dry_run[r]) =>
            /\ applications' = applications
            /\ \A id \in RowIds :
                    /\ ~StatusChanged(id)
                    /\ Shortlisted(id)' = Shortlisted(id)]_vars

C30_WaitTimeAlwaysReturns ==
    rl_result.op \in {"wait_time", "wait_if_needed"} =>
        /\ ~rl_result.raised
        /\ rl_result.wait >= 0

=============================================================================
